---- MODULE Spec2Model ----
(***************************************************************************)
(* Model of lib/heap/heap.c: a first-fit, address-ordered, coalescing     *)
(* free-list allocator.  Free chunk headers and allocation headers live   *)
(* inside the managed region, so the region is modelled as word-granular  *)
(* memory and the list primitives act on that memory.  The target is a    *)
(* 32-bit one (pointers, size_t and unsigned int have the same width);    *)
(* the width is scaled down to WordBits bits so that the wrap-around of   *)
(* size_t arithmetic stays inside the range of the model checker.         *)
(***************************************************************************)
EXTENDS Integers, FiniteSets, Sequences, TLC

\* ---------------------------------------------------------------- bounds
WordBits == 12                 \* width of size_t / addr_t / unsigned int
MaxLive  == 3                  \* pointers the caller holds at one time
MaxCalls == 5                  \* heap_alloc / heap_free calls in one run
MaxExhaustLen == 240           \* longest region of the exhaustion scenario

WordMod  == 2 ^ WordBits

\* ------------------------------------------------------ program constants
PtrSize       == 4             \* sizeof(void *)
FreeChunkSize == 12            \* sizeof(struct free_heap_chunk): node{prev,next}, len
AllocHdrSize  == 12            \* sizeof(struct alloc_struct_begin): magic, ptr, size
HEAP_MAGIC    == 1212498256    \* 'HEAP' = 0x48454150, no address of the region
MinAlign      == 16            \* nonzero alignments are raised to 16
NULL          == 0

\* field offsets
OffPrev  == 0                  \* list_node.prev
OffNext  == 4                  \* list_node.next
OffLen   == 8                  \* free_heap_chunk.len
OffMagic == 0                  \* alloc_struct_begin.magic
OffPtr   == 4                  \* alloc_struct_begin.ptr
OffSize  == 8                  \* alloc_struct_begin.size

\* &theheap.free_list: theheap is a static object below _end
ListAddr == 24

\* regions heap_init may be given (&_end, &_end_of_ram - &_end)
Bases == {32}
Lens  == {48, 176}

\* arguments of heap_alloc
Sizes  == {0, 8, WordMod - 16, WordMod - 13}
Aligns == {0, 3, 16, 128}

VARIABLES base, len, mem, debug, live, last, status, calls, info, stale,
          pc, loc, cs, order
vars == <<base, len, mem, debug, live, last, status, calls, info, stale,
          pc, loc, cs, order>>

\* the threads that call the allocator, each at a place pc[t] of the call it
\* is in with that call's locals loc[t]; cs is the thread inside the
\* critical section, 0 when there is none
Threads == {1, 2}
thr == <<pc, loc, cs>>

\* ------------------------------------------------------------ arithmetic
Add(a, b) == (a + b) % WordMod
Sub(a, b) == (a - b + WordMod) % WordMod

\* alignment & (alignment - 1) is zero for 0 and for the powers of two
IsPow2(a) == \E k \in 0 .. WordBits - 1 : a = 2 ^ k
BadAlign(a) == a # 0 /\ ~IsPow2(a)

\* ROUNDUP(a, b) (((a) + ((b)-1)) & ~((b)-1)), b a power of two
ROUNDUP(a, b) == LET s == Add(a, b - 1) IN s - (s % b)

\* --------------------------------------------------------------- memory
\* A machine state M is [mem, st, reg]: the memory, whether the running call
\* can still complete, and the value the last helper returned.  A call stops
\* ("fault") at an access outside theheap.free_list and the region, ("hang")
\* in a list walk that never ends, ("panic") at a failed DEBUG_ASSERT.
Mapped(M, a) == a \in DOMAIN M.mem
Touch(M, a) == IF M.st = "ok" /\ ~Mapped(M, a) THEN [M EXCEPT !.st = "fault"] ELSE M
Rd(M, a) == IF Mapped(M, a) THEN M.mem[a] ELSE 0
Wr(M, a, v) == IF M.st # "ok" THEN M
               ELSE IF Mapped(M, a) THEN [M EXCEPT !.mem[a] = v]
               ELSE [M EXCEPT !.st = "fault"]
Stop(M, s) == IF M.st = "ok" THEN [M EXCEPT !.st = s] ELSE M
SetReg(M, v) == [M EXCEPT !.reg = v]

\* ------------------------------------------------------ list primitives
\* The inline functions of <list.h> that heap.c calls, on the circular
\* doubly linked list of struct list_node { prev; next; }: an empty list is
\* a head that points at itself, list_next / list_prev give NULL at the head.
list_initialize(M, list) ==
    Wr(Wr(M, list + OffPrev, list), list + OffNext, list)

\* item->prev = list->prev; item->next = list;
list_add_tail_1(M, list, item) ==
    Wr(Wr(Touch(M, list + OffPrev), item + OffPrev, Rd(M, list + OffPrev)),
       item + OffNext, list)
\* list->prev->next = item; list->prev = item;
list_add_tail_2(M, list, item) ==
    Wr(Wr(Touch(M, list + OffPrev), Add(Rd(M, list + OffPrev), OffNext), item),
       list + OffPrev, item)
list_add_tail(M, list, item) ==
    list_add_tail_2(list_add_tail_1(M, list, item), list, item)

list_add_before(M, entry, new_entry) == list_add_tail(M, entry, new_entry)

\* item->next->prev = item->prev;
list_delete_1(M, item) ==
    Wr(Touch(Touch(M, item + OffPrev), Add(item, OffNext)),
       Add(Rd(M, Add(item, OffNext)), OffPrev), Rd(M, item + OffPrev))
\* item->prev->next = item->next;
list_delete_2(M, item) ==
    Wr(M, Add(Rd(M, item + OffPrev), OffNext), Rd(M, Add(item, OffNext)))
\* item->prev = item->next = 0;
list_delete_3(M, item) ==
    Wr(Wr(M, item + OffPrev, 0), Add(item, OffNext), 0)
list_delete(M, item) ==
    list_delete_3(list_delete_2(list_delete_1(M, item), item), item)

list_next(M, list, item) ==
    IF Rd(M, Add(item, OffNext)) # list THEN Rd(M, Add(item, OffNext)) ELSE NULL

list_prev(M, list, item) ==
    IF Rd(M, item + OffPrev) # list THEN Rd(M, item + OffPrev) ELSE NULL

\* ------------------------------------------------------------ heap.c
\* list_for_every_entry of heap_insert_free_chunk: the first node whose
\* address exceeds chunk's; at the end of the list next_chunk is the
\* container of the list head itself.  A node met twice is an endless loop.
RECURSIVE InsertWalk(_, _, _, _)
InsertWalk(M, chunk, cur, seen) ==
    IF cur = ListAddr THEN [st |-> "ok", found |-> FALSE, next_chunk |-> ListAddr]
    ELSE IF cur \in seen THEN [st |-> "hang", found |-> FALSE, next_chunk |-> cur]
    ELSE IF chunk < cur THEN [st |-> "ok", found |-> TRUE, next_chunk |-> cur]
    ELSE IF ~Mapped(M, Add(cur, OffNext))
         THEN [st |-> "fault", found |-> FALSE, next_chunk |-> cur]
    ELSE InsertWalk(M, chunk, Rd(M, Add(cur, OffNext)), seen \cup {cur})

\* lines 144-155: link chunk before the node found, or at the tail
InsertLink(M, chunk, W, dbg) ==
    IF W.st # "ok" THEN Stop(M, W.st)
    ELSE IF W.found
         THEN IF dbg /\ ~(Add(chunk, Rd(M, Add(chunk, OffLen))) <= W.next_chunk)
              THEN Stop(M, "panic")
              ELSE list_add_before(M, W.next_chunk, chunk)
         ELSE list_add_tail(M, ListAddr, chunk)

\* lines 161-171: extend last_chunk over chunk; reg is the chunk that stays
MergeInto(M, chunk, last_chunk) ==
    IF ~Mapped(M, Add(last_chunk, OffLen)) THEN Stop(M, "fault")
    ELSE IF Add(last_chunk, Rd(M, Add(last_chunk, OffLen))) = chunk
    THEN SetReg(list_delete(Wr(M, Add(last_chunk, OffLen),
                               Add(Rd(M, Add(last_chunk, OffLen)),
                                   Rd(M, Add(chunk, OffLen)))),
                            chunk),
                last_chunk)
    ELSE SetReg(M, chunk)

\* lines 158-172: try to merge with the previous chunk
MergePrev(M, chunk) ==
    IF M.st # "ok" THEN M
    ELSE IF list_prev(M, ListAddr, chunk) # NULL
    THEN MergeInto(M, chunk, list_prev(M, ListAddr, chunk))
    ELSE SetReg(M, chunk)

\* the merge with the next chunk left out
MergeNext_Skip(M, chunk, next_chunk) == M

\* lines 174-183: try to merge with the next chunk
MergeNext(M, chunk, next_chunk) ==
    IF M.st # "ok" \/ next_chunk = NULL THEN M
    ELSE IF Add(chunk, Rd(M, Add(chunk, OffLen))) = next_chunk
    THEN list_delete(Wr(Touch(M, Add(next_chunk, OffLen)), Add(chunk, OffLen),
                        Add(Rd(M, Add(chunk, OffLen)), Rd(M, Add(next_chunk, OffLen)))),
                     next_chunk)
    ELSE M

MergeBoth(M, next_chunk) == MergeNext(M, M.reg, next_chunk)

InsertFound(M, chunk, W, dbg) ==
    MergeBoth(MergePrev(InsertLink(M, chunk, W, dbg), chunk), W.next_chunk)

heap_insert_free_chunk(M, chunk, dbg) ==
    InsertFound(M, chunk, InsertWalk(M, chunk, Rd(M, ListAddr + OffNext), {}), dbg)

heap_create_free_chunk(M, ptr, l, dbg) ==
    IF dbg /\ l % PtrSize # 0 THEN Stop(M, "panic")
    ELSE Wr(M, Add(ptr, OffLen), l)

\* the raise to 16 left out
ClampAlign_NoMin(alignment) == alignment

\* lines 221-223: nonzero alignments below 16 become 16
ClampAlign(alignment) ==
    IF alignment > 0 /\ alignment < MinAlign THEN MinAlign ELSE alignment

\* lines 264-269: the user pointer for the span that starts at chunk
UserPtr(chunk, alignment) ==
    IF alignment > 0 THEN ROUNDUP(Add(chunk, AllocHdrSize), alignment)
    ELSE Add(chunk, AllocHdrSize)

\* lines 214-218: at least a free chunk header, rounded up to pointer size
RoundSize(s) == ROUNDUP(IF s < FreeChunkSize THEN FreeChunkSize ELSE s, PtrSize)

\* the size heap_alloc searches for (lines 209-227)
NormSize(size, alignment) ==
    IF alignment > 0
    THEN Add(RoundSize(Add(size, AllocHdrSize)), ClampAlign(alignment))
    ELSE RoundSize(Add(size, AllocHdrSize))

\* list_for_every_entry of heap_alloc: the first chunk with len >= size
RECURSIVE AllocWalk(_, _, _, _, _)
AllocWalk(M, size, cur, seen, dbg) ==
    IF cur = ListAddr THEN [st |-> "ok", chunk |-> NULL]
    ELSE IF cur \in seen THEN [st |-> "hang", chunk |-> NULL]
    ELSE IF ~Mapped(M, Add(cur, OffLen)) \/ ~Mapped(M, Add(cur, OffNext))
         THEN [st |-> "fault", chunk |-> NULL]
    ELSE IF dbg /\ Rd(M, Add(cur, OffLen)) % PtrSize # 0
         THEN [st |-> "panic", chunk |-> NULL]
    ELSE IF Rd(M, Add(cur, OffLen)) >= size THEN [st |-> "ok", chunk |-> cur]
    ELSE AllocWalk(M, size, Rd(M, Add(cur, OffNext)), seen \cup {cur}, dbg)

\* line 251: chunk->len -= chunk->len - size
Truncate(M, chunk, size) ==
    Wr(M, Add(chunk, OffLen),
       Sub(Rd(M, Add(chunk, OffLen)), Sub(Rd(M, Add(chunk, OffLen)), size)))

\* lines 253-257: add the new chunk where chunk used to be
LinkRest(M, newchunk, next_node) ==
    IF next_node # NULL THEN list_add_before(M, next_node, newchunk)
    ELSE list_add_tail(M, ListAddr, newchunk)

\* the chunk is never split
Split_Never(M, chunk, size, next_node, dbg) == M

\* lines 246-258: split the chunk when more than a free chunk header is left
Split(M, chunk, size, next_node, dbg) ==
    IF Rd(M, Add(chunk, OffLen)) > Add(size, FreeChunkSize)
    THEN LinkRest(Truncate(heap_create_free_chunk(M, Add(chunk, size),
                                                  Sub(Rd(M, Add(chunk, OffLen)), size), dbg),
                           chunk, size),
                  Add(chunk, size), next_node)
    ELSE M

\* the value heap_alloc returns and what it recorded
Result(M, ptr, chunk, eff) ==
    [mem |-> M.mem, st |-> M.st, ret |-> ptr, chunk |-> chunk, eff |-> eff]

\* lines 271-275: the header in front of the user pointer
WriteHeader(M, ptr, chunk, eff) ==
    Result(Wr(Wr(Wr(M, Add(Sub(ptr, AllocHdrSize), OffMagic), HEAP_MAGIC),
                 Add(Sub(ptr, AllocHdrSize), OffPtr), chunk),
              Add(Sub(ptr, AllocHdrSize), OffSize), eff),
           ptr, chunk, eff)

\* lines 260-275: size = chunk->len, derive the pointer, write the header
Finish(M, chunk, size, alignment, dbg) ==
    IF dbg /\ ~(Rd(M, Add(chunk, OffLen)) >= size)
    THEN Result(Stop(M, "panic"), NULL, NULL, 0)
    ELSE WriteHeader(M, UserPtr(chunk, alignment), chunk, Rd(M, Add(chunk, OffLen)))

\* lines 240-277: carve the allocation out of chunk
Carve(M, chunk, size, alignment, dbg) ==
    Finish(Split(list_delete(M, chunk), chunk, size, list_next(M, ListAddr, chunk), dbg),
           chunk, size, alignment, dbg)

\* lines 232-279: the outcome of the walk
AllocFound(M, W, size, alignment, dbg) ==
    IF W.st # "ok" THEN Result(Stop(M, W.st), NULL, NULL, 0)
    ELSE IF W.chunk = NULL THEN Result(M, NULL, NULL, 0)
    ELSE Carve(M, W.chunk, size, alignment, dbg)

\* the alignment tested only after the carve
heap_alloc_LateTest(M, size, alignment, dbg) ==
    [AllocFound(M, AllocWalk(M, NormSize(size, alignment),
                             Rd(M, ListAddr + OffNext), {}, dbg),
                NormSize(size, alignment), ClampAlign(alignment), dbg)
     EXCEPT !.ret = IF BadAlign(alignment) THEN NULL ELSE @]

heap_alloc(M, size, alignment, dbg) ==
    IF BadAlign(alignment) THEN Result(M, NULL, NULL, 0)
    ELSE AllocFound(M, AllocWalk(M, NormSize(size, alignment),
                                 Rd(M, ListAddr + OffNext), {}, dbg),
                    NormSize(size, alignment), ClampAlign(alignment), dbg)

\* lines 301-307 for the header at as
FreeHeader(M, as, dbg) ==
    IF dbg /\ Rd(M, Add(as, OffMagic)) # HEAP_MAGIC THEN Stop(M, "panic")
    ELSE heap_insert_free_chunk(
             heap_create_free_chunk(M, Rd(M, Add(as, OffPtr)), Rd(M, Add(as, OffSize)), dbg),
             Rd(M, Add(as, OffPtr)), dbg)

\* heap_free without the test of lines 292-293
heap_free_NoNullTest(M, ptr, dbg) ==
    FreeHeader(Touch(Touch(Touch(M, Add(Sub(ptr, AllocHdrSize), OffMagic)),
                           Add(Sub(ptr, AllocHdrSize), OffPtr)),
                     Add(Sub(ptr, AllocHdrSize), OffSize)),
               Sub(ptr, AllocHdrSize), dbg)

heap_free(M, ptr, dbg) ==
    IF ptr = NULL THEN M
    ELSE FreeHeader(Touch(Touch(Touch(M, Add(Sub(ptr, AllocHdrSize), OffMagic)),
                                Add(Sub(ptr, AllocHdrSize), OffPtr)),
                          Add(Sub(ptr, AllocHdrSize), OffSize)),
                    Sub(ptr, AllocHdrSize), dbg)

\* memory the program may touch: theheap.free_list and the region
Cells(b, l) == {ListAddr + OffPrev, ListAddr + OffNext}
               \cup {b + PtrSize * i : i \in 0 .. (l \div PtrSize) - 1}

Machine(m) == [mem |-> m, st |-> "ok", reg |-> NULL]

heap_init(b, l) ==
    heap_insert_free_chunk(
        heap_create_free_chunk(
            list_initialize(Machine([a \in Cells(b, l) |-> 0]), ListAddr), b, l, FALSE),
        b, FALSE)

\* ------------------------------------------------------------- behaviour
NoCall == [op |-> "init", size |-> 0, alignment |-> 0, ret |-> NULL,
           chunk |-> NULL, eff |-> 0, ptr |-> NULL]

\* the locals of a thread that is in no call
NoLocal == [size |-> 0, alignment |-> 0, norm |-> 0, chunk |-> NULL,
            ret |-> NULL, eff |-> 0, ptr |-> NULL]

\* the state heap_init leaves (the region itself starts zeroed); debug tells
\* whether DEBUG_ASSERT is compiled in
InitWith(BB, LL) ==
    \E b \in BB, l \in LL :
        /\ base = b
        /\ len = l
        /\ mem = heap_init(b, l).mem
        /\ debug \in BOOLEAN
        /\ live = {}
        /\ last = NoCall
        /\ status = "ok"
        /\ calls = 0
        /\ info = <<>>
        /\ stale = {}
        /\ pc = [t \in Threads |-> "idle"]
        /\ loc = [t \in Threads |-> NoLocal]
        /\ cs = 0
        /\ order = <<>>

Init == InitWith(Bases, Lens)

\* what the caller knows of the allocation behind a pointer it holds: the
\* size heap_alloc searched for, the span it carved and the size it recorded
Note(R, size, alignment) ==
    [norm |-> NormSize(size, alignment), chunk |-> R.chunk, eff |-> R.eff]

\* f with key k bound to v / without key k
Bind(f, k, v) == [q \in DOMAIN f \cup {k} |-> IF q = k THEN v ELSE f[q]]
Drop(f, k) == [q \in DOMAIN f \ {k} |-> f[q]]

\* what a call that returned R leaves behind; a call that cannot return
\* (endless loop, access outside the region, failed assertion) ends the run
AllocDone(R, size, alignment) ==
    /\ info' = IF R.st = "ok" /\ R.ret # NULL
               THEN Bind(info, R.ret, Note(R, size, alignment)) ELSE info
    /\ status' = R.st
    /\ mem' = IF R.st = "ok" THEN R.mem ELSE mem
    /\ live' = IF R.st = "ok" /\ R.ret # NULL THEN live \cup {R.ret} ELSE live
    /\ last' = IF R.st = "ok"
               THEN [op |-> "alloc", size |-> size, alignment |-> alignment,
                     ret |-> R.ret, chunk |-> R.chunk, eff |-> R.eff, ptr |-> NULL]
               ELSE last

\* one call ptr = heap_alloc(size, alignment)
AllocWith(SS, AA) ==
    \E size \in SS, alignment \in AA :
        /\ status = "ok"
        /\ calls < MaxCalls
        /\ Cardinality(live) < MaxLive
        /\ AllocDone(heap_alloc(Machine(mem), size, alignment, debug), size, alignment)
        /\ calls' = calls + 1
        /\ UNCHANGED <<base, len, debug, stale, thr, order>>

Alloc == AllocWith(Sizes, Aligns)

FreeDone(R, ptr) ==
    /\ info' = IF R.st = "ok" THEN Drop(info, ptr) ELSE info
    /\ status' = R.st
    /\ mem' = IF R.st = "ok" THEN R.mem ELSE mem
    /\ live' = IF R.st = "ok" THEN live \ {ptr} ELSE live
    /\ last' = IF R.st = "ok" THEN [NoCall EXCEPT !.op = "free", !.ptr = ptr] ELSE last

\* one call heap_free(ptr) of a pointer the caller holds; a caller that
\* keeps the pointer afterwards holds a stale pointer
FreeBy(keeps) ==
    \E ptr \in live :
        /\ status = "ok"
        /\ calls < MaxCalls
        /\ FreeDone(heap_free(Machine(mem), ptr, debug), ptr)
        /\ calls' = calls + 1
        /\ stale' = IF keeps /\ status' = "ok" THEN stale \cup {ptr} ELSE stale
        /\ UNCHANGED <<base, len, debug, thr, order>>

Free == FreeBy(FALSE)

Next == Alloc \/ Free

Spec == Init /\ [][Next]_vars

\* the alignments heap_test draws (1 << (rand() % 8))
SizesAlign  == {1, WordMod - 13}
AlignsPow2  == {1, 2, 4, 8, 16, 32, 64, 128}
AllocAligned == AllocWith(SizesAlign, AlignsPow2)
NextAlign == AllocAligned \/ Free
SpecAlign == Init /\ [][NextAlign]_vars

\* requests whose size arithmetic stays below 2^WordBits
SizesInRange == {0, 1, 8, 20}
AllocInRange == AllocWith(SizesInRange, Aligns)
NextInRange == AllocInRange \/ Free
SpecInRange == Init /\ [][NextInRange]_vars

\* a caller that frees a pointer a second time: heap_free(ptr) of a stale
\* pointer that no later heap_alloc has returned again
FreeKept == FreeBy(TRUE)

\* a heap_free(ptr) that leaves the caller's pointers as they are
FreeCalled(R, op, ptr) ==
    /\ status' = R.st
    /\ mem' = R.mem
    /\ last' = [NoCall EXCEPT !.op = op, !.ptr = ptr]

SecondFree ==
    \E ptr \in stale \ live :
        /\ status = "ok"
        /\ calls < MaxCalls
        /\ FreeCalled(heap_free(Machine(mem), ptr, debug), "refree", ptr)
        /\ calls' = calls + 1
        /\ UNCHANGED <<base, len, debug, live, info, stale, thr, order>>

SizesDouble == {0, 8}
AlignsDouble == {0, 16, 128}
AllocDouble == AllocWith(SizesDouble, AlignsDouble)
NextDouble == AllocDouble \/ FreeKept \/ SecondFree
SpecDouble == Init /\ [][NextDouble]_vars

\* one call heap_free(NULL)
FreeNull ==
    /\ status = "ok"
    /\ calls < MaxCalls
    /\ FreeCalled(heap_free(Machine(mem), NULL, debug), "free", NULL)
    /\ calls' = calls + 1
    /\ UNCHANGED <<base, len, debug, live, info, stale, thr, order>>

SizesNull == {0, WordMod - 13}
AlignsNull == {0, 16}
AllocNull == AllocWith(SizesNull, AlignsNull)
NextNull == AllocNull \/ Free \/ FreeNull
SpecNull == Init /\ [][NextNull]_vars

\* ------------------------------------------------------- exhaustion
\* the caller of spec 8, scenario 5: heap_alloc(1, 0) until it returns NULL,
\* then heap_free of every pointer in reverse order of allocation; order
\* holds the pointers in the order they were returned
Filling == last.op = "init" \/ (last.op = "alloc" /\ last.ret # NULL)
Draining == ~Filling

ExhaustAlloc ==
    /\ status = "ok"
    /\ Filling
    /\ AllocDone(heap_alloc(Machine(mem), 1, 0, debug), 1, 0)
    /\ order' = IF status' = "ok" /\ last'.ret # NULL
                THEN Append(order, last'.ret) ELSE order
    /\ calls' = calls + 1
    /\ UNCHANGED <<base, len, debug, stale, thr>>

ExhaustFree ==
    /\ status = "ok"
    /\ Draining
    /\ order # <<>>
    /\ FreeDone(heap_free(Machine(mem), order[Len(order)], debug), order[Len(order)])
    /\ order' = IF status' = "ok" THEN SubSeq(order, 1, Len(order) - 1) ELSE order
    /\ calls' = calls + 1
    /\ UNCHANGED <<base, len, debug, stale, thr>>

\* the regions of the scenario: every length up to MaxExhaustLen that can
\* hold a free chunk
LensExhaust == {l \in FreeChunkSize .. MaxExhaustLen : l % PtrSize = 0}
InitExhaust == InitWith(Bases, LensExhaust)
NextExhaust == ExhaustAlloc \/ ExhaustFree

\* the caller goes on while a call is left to make: weak fairness of
\* NextExhaust, WF_vars(NextExhaust), with ENABLED <<NextExhaust>>_vars
\* written out (every call is defined whenever its guard holds and counts
\* itself in calls)
CanStep == status = "ok" /\ (Filling \/ order # <<>>)
FairExhaust == []<>(~CanStep) \/ []<><<NextExhaust>>_vars
SpecExhaust == InitExhaust /\ [][NextExhaust]_vars /\ FairExhaust

\* ------------------------------------------------------------ threads
\* <kernel/thread.h>: a thread enters the critical section when no other
\* thread is inside and leaves it on exit
enter_critical_section(t) == cs = 0 /\ cs' = t
exit_critical_section(t) == cs = t /\ cs' = 0

\* the places of a call that lie between enter and exit
InListCode == {"a_walk", "a_carve", "a_exit", "f_create", "f_insert", "f_exit"}

\* the pointers some thread is freeing
BeingFreed == {loc[t].ptr : t \in {u \in Threads : pc[u] \in {"f_enter", "f_create", "f_insert", "f_exit"}}}

\* thread t goes on to place p with locals l, unless machine M has stopped
Step(M, t, p, l) ==
    /\ status' = M.st
    /\ mem' = IF M.st = "ok" THEN M.mem ELSE mem
    /\ pc' = IF M.st = "ok" THEN [pc EXCEPT ![t] = p] ELSE pc
    /\ loc' = IF M.st = "ok" THEN [loc EXCEPT ![t] = l] ELSE loc

\* lines 198-227: the call, the alignment test, the size arithmetic
TAllocCall(t, SS, AA) ==
    \E size \in SS, alignment \in AA :
        /\ status = "ok"
        /\ pc[t] = "idle"
        /\ calls < MaxCalls
        /\ Cardinality(live) < MaxLive
        /\ calls' = calls + 1
        /\ IF BadAlign(alignment)
           THEN /\ last' = [NoCall EXCEPT !.op = "alloc", !.size = size,
                                         !.alignment = alignment]
                /\ UNCHANGED <<pc, loc, order>>
           ELSE /\ pc' = [pc EXCEPT ![t] = "a_enter"]
                /\ loc' = [loc EXCEPT ![t] =
                              [NoLocal EXCEPT !.size = size, !.alignment = alignment,
                                              !.norm = NormSize(size, alignment)]]
                /\ UNCHANGED last
        /\ UNCHANGED <<base, len, mem, debug, live, status, info, stale, cs, order>>

\* line 230 and line 306
TEnter(t) ==
    /\ status = "ok"
    /\ pc[t] \in {"a_enter", "f_enter"}
    /\ enter_critical_section(t)
    /\ pc' = [pc EXCEPT ![t] = IF pc[t] = "a_enter" THEN "a_walk" ELSE "f_create"]
    /\ UNCHANGED <<base, len, mem, debug, live, last, status, calls, info, stale, loc, order>>

\* lines 235-239: the walk up to the chunk that is big enough
WalkDone(W, t) ==
    Step(Stop(Machine(mem), W.st), t, "a_carve", [loc[t] EXCEPT !.chunk = W.chunk])

TAllocWalk(t) ==
    /\ status = "ok"
    /\ pc[t] = "a_walk"
    /\ WalkDone(AllocWalk(Machine(mem), loc[t].norm, mem[ListAddr + OffNext], {}, debug), t)
    /\ UNCHANGED <<base, len, debug, live, last, calls, info, stale, cs, order>>

\* lines 240-277: the carve at the chunk found, or nothing at the list end
CarveDone(R, t) ==
    Step([mem |-> R.mem, st |-> R.st, reg |-> NULL], t, "a_exit",
         [loc[t] EXCEPT !.ret = R.ret, !.chunk = R.chunk, !.eff = R.eff])

TAllocCarve(t) ==
    /\ status = "ok"
    /\ pc[t] = "a_carve"
    /\ CarveDone(AllocFound(Machine(mem), [st |-> "ok", chunk |-> loc[t].chunk],
                            loc[t].norm, ClampAlign(loc[t].alignment), debug), t)
    /\ UNCHANGED <<base, len, debug, live, last, calls, info, stale, cs, order>>

\* lines 290-301: the call, the NULL test, the assertion on the magic
MagicTest(M, as, dbg) ==
    IF dbg /\ Rd(M, Add(as, OffMagic)) # HEAP_MAGIC THEN Stop(M, "panic") ELSE M

TFreeCall(t) ==
    \E ptr \in live \ BeingFreed :
        /\ status = "ok"
        /\ pc[t] = "idle"
        /\ calls < MaxCalls
        /\ calls' = calls + 1
        /\ Step(MagicTest(Touch(Machine(mem), Add(Sub(ptr, AllocHdrSize), OffMagic)),
                          Sub(ptr, AllocHdrSize), debug),
                t, "f_enter", [NoLocal EXCEPT !.ptr = ptr])
        /\ UNCHANGED <<base, len, debug, live, last, info, stale, cs, order>>

\* line 307, the argument: heap_create_free_chunk(as->ptr, as->size)
CreateFromHeader(M, as, dbg) ==
    heap_create_free_chunk(Touch(Touch(M, Add(as, OffPtr)), Add(as, OffSize)),
                           Rd(M, Add(as, OffPtr)), Rd(M, Add(as, OffSize)), dbg)

TFreeCreate(t) ==
    /\ status = "ok"
    /\ pc[t] = "f_create"
    /\ Step(CreateFromHeader(Machine(mem), Sub(loc[t].ptr, AllocHdrSize), debug),
            t, "f_insert", [loc[t] EXCEPT !.chunk = Rd(Machine(mem), Add(Sub(loc[t].ptr, AllocHdrSize), OffPtr))])
    /\ UNCHANGED <<base, len, debug, live, last, calls, info, stale, cs, order>>

\* line 307, the call: heap_insert_free_chunk
TFreeInsert(t) ==
    /\ status = "ok"
    /\ pc[t] = "f_insert"
    /\ Step(heap_insert_free_chunk(Machine(mem), loc[t].chunk, debug),
            t, "f_exit", loc[t])
    /\ UNCHANGED <<base, len, debug, live, last, calls, info, stale, cs, order>>

\* lines 285-287: heap_alloc leaves the critical section and returns ptr
TAllocExit(t) ==
    /\ status = "ok"
    /\ pc[t] = "a_exit"
    /\ exit_critical_section(t)
    /\ pc' = [pc EXCEPT ![t] = "idle"]
    /\ loc' = [loc EXCEPT ![t] = NoLocal]
    /\ live' = IF loc[t].ret # NULL THEN live \cup {loc[t].ret} ELSE live
    /\ info' = IF loc[t].ret # NULL
               THEN Bind(info, loc[t].ret,
                         [norm |-> loc[t].norm, chunk |-> loc[t].chunk, eff |-> loc[t].eff])
               ELSE info
    /\ last' = [op |-> "alloc", size |-> loc[t].size, alignment |-> loc[t].alignment,
                ret |-> loc[t].ret, chunk |-> loc[t].chunk, eff |-> loc[t].eff,
                ptr |-> NULL]
    /\ UNCHANGED <<base, len, mem, debug, status, calls, stale, order>>

\* lines 308-311: heap_free leaves the critical section and returns
TFreeExit(t) ==
    /\ status = "ok"
    /\ pc[t] = "f_exit"
    /\ exit_critical_section(t)
    /\ pc' = [pc EXCEPT ![t] = "idle"]
    /\ loc' = [loc EXCEPT ![t] = NoLocal]
    /\ live' = live \ {loc[t].ptr}
    /\ info' = Drop(info, loc[t].ptr)
    /\ last' = [NoCall EXCEPT !.op = "free", !.ptr = loc[t].ptr]
    /\ UNCHANGED <<base, len, mem, debug, status, calls, stale, order>>

SizesConc == {0, 8, WordMod - 13}
AlignsConc == {0, 3, 16}
TStep(t, SS, AA) ==
    \/ TAllocCall(t, SS, AA) \/ TEnter(t) \/ TAllocWalk(t) \/ TAllocCarve(t)
    \/ TAllocExit(t) \/ TFreeCall(t) \/ TFreeCreate(t) \/ TFreeInsert(t)
    \/ TFreeExit(t)
NextConc == \E t \in Threads : TStep(t, SizesConc, AlignsConc)
SpecConc == Init /\ [][NextConc]_vars

\* the same threads with requests whose size arithmetic does not wrap
SizesConcInRange == {0, 8}
NextConcInRange == \E t \in Threads : TStep(t, SizesConcInRange, AlignsConc)
SpecConcInRange == Init /\ [][NextConcInRange]_vars

\* ------------------------------------------------------- derived views
\* the free list as list_for_every_entry sees it (cut at a repeated node
\* or at a node outside the modelled memory)
RECURSIVE ListFrom(_, _)
ListFrom(cur, acc) ==
    IF cur = ListAddr THEN acc
    ELSE IF cur + OffNext \notin DOMAIN mem \/ cur + OffLen \notin DOMAIN mem
         THEN Append(acc, cur)
    ELSE IF \E i \in 1 .. Len(acc) : acc[i] = cur THEN Append(acc, cur)
    ELSE ListFrom(mem[cur + OffNext], Append(acc, cur))

FreeList == ListFrom(mem[ListAddr + OffNext], <<>>)
ChunkLen(c) == IF c + OffLen \in DOMAIN mem THEN mem[c + OffLen] ELSE 0

\* header fields of the allocation behind user pointer p
HdrAddr(p)  == Sub(p, AllocHdrSize)
HdrMagic(p) == IF HdrAddr(p) + OffMagic \in DOMAIN mem THEN mem[HdrAddr(p) + OffMagic] ELSE 0
HdrPtr(p)   == IF HdrAddr(p) + OffPtr \in DOMAIN mem THEN mem[HdrAddr(p) + OffPtr] ELSE 0
HdrSize(p)  == IF HdrAddr(p) + OffSize \in DOMAIN mem THEN mem[HdrAddr(p) + OffSize] ELSE 0

RECURSIVE SumFree(_)
SumFree(i) == IF i > Len(FreeList) THEN 0 ELSE ChunkLen(FreeList[i]) + SumFree(i + 1)

RECURSIVE SumLive(_)
SumLive(P) == IF P = {} THEN 0
              ELSE LET p == CHOOSE q \in P : TRUE IN HdrSize(p) + SumLive(P \ {p})

\* a call has completed and the program runs on
Completed == status = "ok"

TypeOK ==
    /\ status \in {"ok", "hang", "fault", "panic"}
    /\ live \subseteq 0 .. WordMod - 1

\* ================================================================ claims

\* C1: after heap_init and after every completed heap_alloc or heap_free the
\* lengths of the chunks in the free list plus the span sizes recorded in
\* the headers of the live allocations add up to theheap.len.
C1_Conservation == Completed => SumFree(1) + SumLive(live) = len

\* C2: after every completed call the free list is in strictly ascending
\* address order.
C2_Ascending ==
    Completed => \A i \in 1 .. Len(FreeList) - 1 : FreeList[i] < FreeList[i + 1]

\* C3: after every completed call no two consecutive chunks of the free
\* list are physically adjacent: addr(P) + P.len < addr(N).
C3_NoAdjacent ==
    Completed => \A i \in 1 .. Len(FreeList) - 1 :
                    FreeList[i] + ChunkLen(FreeList[i]) < FreeList[i + 1]

\* C4: whenever no allocation is live the free list is exactly one chunk at
\* theheap.base with len theheap.len.
C4_AllFreedOneChunk ==
    (Completed /\ live = {}) => (FreeList = <<base>> /\ ChunkLen(base) = len)

MaxOf(a, b) == IF a >= b THEN a ELSE b

\* C5: for every size and every power-of-two alignment a in 1 .. 128,
\* heap_alloc(n, a) returns NULL or a pointer that is a multiple of max(a, 16).
C5_Aligned ==
    (Completed /\ last.op = "alloc" /\ last.alignment \in AlignsPow2)
        => (last.ret = NULL \/ last.ret % MaxOf(last.alignment, 16) = 0)

\* C5 witness: an allocation with alignment 128 has succeeded
C5_Witness ==
    Completed /\ last.op = "alloc" /\ last.alignment = 128 /\ last.ret # NULL

\* C6: whenever heap_alloc returns a non-null pointer U carved from span
\* base S with recorded span size eff_size, U + requested_size <= S + eff_size.
C6_RequestFitsSpan ==
    (Completed /\ last.op = "alloc" /\ last.ret # NULL)
        => last.ret + last.size <= last.chunk + last.eff

\* C7: for every successful heap_alloc the user pointer U satisfies
\* S + sizeof(alloc header) <= U < S + eff_size.
C7_PtrInsideSpan ==
    (Completed /\ last.op = "alloc" /\ last.ret # NULL)
        => /\ last.chunk + AllocHdrSize <= last.ret
           /\ last.ret < last.chunk + last.eff

\* the bound of C7 with the span end included (holds under SpecInRange)
PtrWithinSpan ==
    (Completed /\ last.op = "alloc" /\ last.ret # NULL)
        => /\ last.chunk + AllocHdrSize <= last.ret
           /\ last.ret <= last.chunk + last.eff
           /\ (last.size > 0 \/ last.alignment > 0) => last.ret < last.chunk + last.eff

\* the normalized size as the claim words it, in unbounded arithmetic
NormSizeStated(size, alignment) ==
    LET s1 == size + AllocHdrSize
        s2 == MaxOf(s1, FreeChunkSize)
        s3 == ((s2 + PtrSize - 1) \div PtrSize) * PtrSize
    IN  IF alignment > 0 THEN s3 + MaxOf(alignment, 16) ELSE s3

\* C8: heap_alloc returns NULL exactly when the alignment is nonzero and not
\* a power of two, or no chunk in the free list has len >= the normalized
\* size; in every other state it returns a non-null pointer.
C8_NullExactlyWhen ==
    [][(calls' = calls + 1 /\ status' = "ok" /\ last'.op = "alloc")
        => (last'.ret = NULL
              <=> \/ BadAlign(last'.alignment)
                  \/ ~\E i \in 1 .. Len(FreeList) :
                        ChunkLen(FreeList[i]) >= NormSizeStated(last'.size, last'.alignment))]_vars

\* C9: after every completed call every chunk in the free list has a len
\* that is a multiple of sizeof(void *) and at least sizeof(struct free_heap_chunk).
C9_ChunkLenShape ==
    Completed => \A i \in 1 .. Len(FreeList) :
                    /\ ChunkLen(FreeList[i]) % PtrSize = 0
                    /\ ChunkLen(FreeList[i]) >= FreeChunkSize

\* C10: after every completed call every chunk C in the free list lies in
\* the region: base <= addr(C) and addr(C) + C.len <= base + len.
C10_ChunkInRegion ==
    Completed => \A i \in 1 .. Len(FreeList) :
                    /\ base <= FreeList[i]
                    /\ FreeList[i] + ChunkLen(FreeList[i]) <= base + len

\* C11: in a build with DEBUG_ASSERT, heap_free(p) of a pointer that was
\* freed before (alignment 0 or not, other calls in between or not) trips
\* the assertion on the magic before any free chunk is created or inserted:
\* the call does not return and memory is as it was.
C11_DoubleFreeCaught ==
    [][(calls' = calls + 1 /\ last'.op = "refree" /\ debug)
        => (status' = "panic" /\ mem' = mem)]_vars

\* C12: heap_free(NULL) returns and leaves theheap.base, theheap.len, the
\* free list (membership, order, every len) and every allocation header,
\* that is all of memory, and the caller's pointers unchanged.
C12_FreeNullNoOp ==
    [][FreeNull => (status' = "ok" /\ mem' = mem /\ base' = base /\ len' = len
                    /\ live' = live)]_vars

\* C12 witness: heap_free(NULL) was called with allocations live and chunks
\* in the free list
C12_Witness ==
    /\ last.op = "free" /\ last.ptr = NULL
    /\ live # {} /\ Len(FreeList) >= 1

\* at most one caller is inside the list code at a time
OneInListCode ==
    /\ Cardinality({t \in Threads : pc[t] \in InListCode}) <= 1
    /\ \A t \in Threads : pc[t] \in InListCode => cs = t

\* C13: with threads calling heap_alloc and heap_free concurrently, all list
\* code runs inside the critical section, at most one caller is inside it at
\* a time, no call goes wrong, and whenever nobody is inside the free list is
\* in ascending order, has no adjacent chunks and conserves the bytes.
C13_Interleavings ==
    /\ OneInListCode
    /\ status = "ok"
    /\ cs = 0 => /\ \A i \in 1 .. Len(FreeList) - 1 :
                        /\ FreeList[i] < FreeList[i + 1]
                        /\ FreeList[i] + ChunkLen(FreeList[i]) < FreeList[i + 1]
                 /\ SumFree(1) + SumLive(live) = len

\* a completed heap_alloc step that returned a pointer
AllocReturned ==
    calls' = calls + 1 /\ status' = "ok" /\ last'.op = "alloc" /\ last'.ret # NULL

\* the len field of the chunk at c in memory m
LenAt(m, c) == IF c + OffLen \in DOMAIN m THEN m[c + OffLen] ELSE 0

\* the chunks of list L other than c, in list order
Others(L, c) == SelectSeq(L, LAMBDA x : x # c)

\* the chunks of the free list that can hold n bytes
Fitting(n) == {FreeList[i] : i \in {j \in 1 .. Len(FreeList) : ChunkLen(FreeList[j]) >= n}}

\* C14: when heap_alloc succeeds the span starts at the lowest-addressed
\* chunk K of the free list with K.len >= normalized size, and every other
\* chunk keeps its len and its place in the list (the list without the
\* remainder K + size is the old list without K).
C14_FirstFit ==
    [][AllocReturned =>
        /\ last'.chunk \in Fitting(NormSize(last'.size, last'.alignment))
        /\ \A c \in Fitting(NormSize(last'.size, last'.alignment)) : last'.chunk <= c
        /\ Others(FreeList', last'.chunk + NormSize(last'.size, last'.alignment))
              = Others(FreeList, last'.chunk)
        /\ \A i \in 1 .. Len(FreeList) :
              FreeList[i] # last'.chunk => LenAt(mem', FreeList[i]) = ChunkLen(FreeList[i])]_vars

\* the place of chunk c in list L
IndexOf(L, c) == CHOOSE i \in 1 .. Len(L) : L[i] = c

\* what C15 says of chunk K and normalized size n
SplitAsStated(K, n) ==
    IF ChunkLen(K) > n + FreeChunkSize
    THEN /\ last'.eff = n
         /\ FreeList' = [FreeList EXCEPT ![IndexOf(FreeList, K)] = K + n]
         /\ LenAt(mem', K + n) = ChunkLen(K) - n
    ELSE /\ last'.eff = ChunkLen(K)
         /\ FreeList' = Others(FreeList, K)

\* C15: for the chosen chunk K and the normalized size, if K.len > size +
\* sizeof(struct free_heap_chunk) the recorded span size is size and a new
\* free chunk at addr(K) + size with len K.len - size takes K's place in the
\* list; otherwise no chunk is created, K leaves the list and the recorded
\* span size is K.len.
C15_SplitPolicy ==
    [][AllocReturned =>
        /\ \E i \in 1 .. Len(FreeList) : FreeList[i] = last'.chunk
        /\ SplitAsStated(last'.chunk, NormSize(last'.size, last'.alignment))]_vars

\* the excess of the span size heap_alloc recorded for p over the size it
\* searched for
Slack(p) == info[p].eff - info[p].norm

GotNull == last.op = "alloc" /\ last.ret = NULL

\* every pointer is freed again and one chunk spans the region
Recovered ==
    /\ status = "ok" /\ Draining /\ order = <<>> /\ live = {}
    /\ FreeList = <<base>> /\ ChunkLen(base) = len

\* C17: from a freshly initialised heap, repeated heap_alloc(1, 0) eventually
\* returns NULL, every successful call strictly decreases the total of the
\* free chunk lengths, and freeing the pointers in reverse order of
\* allocation then leaves a single free chunk spanning [base, base + len).
C17_ExhaustRecover ==
    /\ <>GotNull
    /\ [][(ExhaustAlloc /\ last'.ret # NULL) => SumFree(1)' < SumFree(1)]_vars
    /\ <>[]Recovered

\* C17 witness: the heap is whole again after at least four allocations
C17_Witness == Recovered /\ calls >= 9

\* [a, a + m) and [b, b + n) have no byte in common
Apart(a, m, b, n) == a + m <= b \/ b + n <= a

\* C18: the recorded spans [span_base, span_base + span_size) of any two
\* distinct live allocations are disjoint, and no live allocation's span
\* overlaps a chunk of the free list.
C18_SpansDisjoint ==
    Completed =>
        /\ \A p, q \in live :
              p # q => Apart(info[p].chunk, info[p].eff, info[q].chunk, info[q].eff)
        /\ \A p \in live : \A i \in 1 .. Len(FreeList) :
              Apart(info[p].chunk, info[p].eff, FreeList[i], ChunkLen(FreeList[i]))

\* the word at offset off of the header of p in memory m
HdrIn(m, p, off) ==
    IF HdrAddr(p) + off \in DOMAIN m THEN m[HdrAddr(p) + off] ELSE 0

\* the header of p in memory m is what heap_alloc wrote for note n
HeaderKept(m, p, n) ==
    /\ HdrIn(m, p, OffMagic) = HEAP_MAGIC
    /\ HdrIn(m, p, OffPtr) = n.chunk
    /\ HdrIn(m, p, OffSize) = n.eff

\* the words of the span of note n
SpanWords(n) == {a \in DOMAIN mem : n.chunk <= a /\ a < n.chunk + n.eff}

\* C19: a completed heap_alloc or heap_free writes no word of the span of an
\* allocation that is live before and after it, and afterwards the header of
\* every live allocation holds magic = HEAP_MAGIC, ptr = span base and
\* size = span size as written when it was allocated.
C19_HeaderKept ==
    [][(calls' = calls + 1 /\ status' = "ok") =>
        /\ \A p \in live \cap live' :
              last'.ret # p => \A a \in SpanWords(info[p]) : mem'[a] = mem[a]
        /\ \A p \in live' : HeaderKept(mem', p, info'[p])]_vars

\* C20: a heap_alloc call that returns NULL (bad alignment or no chunk large
\* enough) leaves the allocator state unchanged: the free list with its
\* chunks, their order and their lens, and no header written, that is all
\* of memory, and the caller's pointers.
C20_NullNoChange ==
    [][(calls' = calls + 1 /\ status' = "ok" /\ last'.op = "alloc" /\ last'.ret = NULL)
        => (mem' = mem /\ live' = live /\ base' = base /\ len' = len)]_vars

\* C20 witness: heap_alloc found no chunk large enough in a free list that
\* is not empty, with an allocation live
C20_Witness ==
    /\ Completed /\ last.op = "alloc" /\ last.ret = NULL
    /\ ~BadAlign(last.alignment)
    /\ Len(FreeList) >= 1 /\ live # {}

====
